---- MODULE Spec2Model ----
(***************************************************************************)
(* Model of creek's ReadServer (src/read/server.rs): the open handshake    *)
(* of ReadServer::new, the dispatch loop of ReadServer::run and the        *)
(* backpressure-aware ReadServer::send_msg, together with the client that  *)
(* feeds the request and close-signal queues and drains the responses.     *)
(***************************************************************************)
EXTENDS Naturals, Sequences, FiniteSets, TLC

\* ------------------------------------------------------------------ bounds
MaxReqs == 3          \* requests the client pushes in one run
ReqCap == 2           \* capacity of the request queue
RespCap == 1          \* capacity of the response queue
MaxFrame == 1         \* frames of the file are 0..MaxFrame
MaxIdx == 1           \* block_index / cache_index values are 0..MaxIdx
MaxCacheBlocks == 1   \* blocks of a cache

\* RingBuffer::new(1) of the open handshake
OpenCap == 1

Frames == 0..MaxFrame

VARIABLES
  open_ch,        \* the capacity-one channel of the handshake (open_tx/open_rx)
  open_res,       \* outcome of D::new: "none" (not yet called), "Ok", "Err"
  open_pushes,    \* pushes on open_ch so far, each <<value, accepted>>
  new_ret,        \* what ReadServer::new returned: "pending", "Ok", "Err"
  pc,             \* position of the worker thread
  run,            \* self.run
  decoder,        \* the decoder's current frame
  dec_calls,      \* decode_into / seek_to calls made so far
  dec_errs,       \* of which returned an error
  block_pool,     \* self.block_pool (a Vec, last element is the top)
  cache_pool,     \* self.cache_pool
  from_client,    \* request queue
  to_client,      \* response queue
  close_signal,   \* close-signal queue
  close_info,     \* what the client saw when it pushed the close signal
  close_seen,     \* the worker has popped a close signal
  msg,            \* the argument of the send_msg call in progress
  cont,           \* where the worker resumes when send_msg returns
  work,           \* locals of the request being serviced
  n_reqs,         \* requests pushed so far
  last_popped,    \* ord of the request popped last
  last_ord,       \* ord of the request answered by the ReadIntoBlockRes or
                  \* CacheRes pushed last
  fatal_sent,     \* FatalError responses pushed on to_client so far
  lost,           \* responses whose push failed (dropped by send_msg)
  client_bufs,    \* buffers the client holds
  next_id         \* identity of the next buffer constructed

vars == <<open_ch, open_res, open_pushes, new_ret, pc, run, decoder, dec_calls,
          dec_errs, block_pool, cache_pool, from_client, to_client,
          close_signal, close_info, close_seen, msg, cont, work, n_reqs,
          last_popped, last_ord, fatal_sent, lost, client_bufs, next_id>>

handshake_vars == <<open_ch, open_res, open_pushes, new_ret>>
decoder_vars == <<decoder, dec_calls, dec_errs>>
pool_vars == <<block_pool, cache_pool>>
sent_vars == <<last_ord, fatal_sent, lost>>

\* ---------------------------------------------------------------- buffers
\* A DataBlock / DataBlockCache: identity, the two tags, number of blocks of
\* a cache.  id = 0 is Option::None.
NoBuf == [ty |-> "none", id |-> 0, sf |-> 0, ws |-> 0, nb |-> 0]

\* DataBlock::new(num_channels)
NewBlock(id) == [ty |-> "block", id |-> id, sf |-> 0, ws |-> 0, nb |-> 0]

\* DataBlockCache::new(num_channels): a cache of MaxCacheBlocks blocks
NewCache(id) ==
  [ty |-> "cache", id |-> id, sf |-> 0, ws |-> 0, nb |-> MaxCacheBlocks]

Front(s) == SubSeq(s, 1, Len(s) - 1)
Last(s) == s[Len(s)]

\* ----------------------------------------------------------------- queues
\* rtrb Producer::is_full / Producer::push: a push on a full ring is refused.
\* A ring that never reports itself full.
QNeverFull(q, cap) == FALSE

QFull(q, cap) == Len(q) >= cap
QPush(q, cap, v) == IF QFull(q, cap) THEN q ELSE Append(q, v)

NoReq == [kind |-> "none", idx |-> 0, buf |-> NoBuf, frame |-> 0, ord |-> 0]
NoMsg == [kind |-> "none", idx |-> 0, buf |-> NoBuf, ord |-> 0]
NoWork == [req |-> NoReq, buf |-> NoBuf, from |-> "none", built |-> FALSE,
           current_frame |-> 0, stage |-> "none", failed |-> FALSE]
NoClose == [pushed |-> FALSE, idle |-> FALSE, popped |-> 0]

Init ==
  /\ open_ch = <<>>
  /\ open_res = "none"
  /\ open_pushes = <<>>
  /\ new_ret = "pending"
  /\ pc = "open"
  /\ run = TRUE
  /\ decoder \in Frames
  /\ dec_calls = 0
  /\ dec_errs = 0
  /\ block_pool = <<>>
  /\ cache_pool = <<>>
  /\ from_client = <<>>
  /\ to_client = <<>>
  /\ close_signal = <<>>
  /\ close_info = NoClose
  /\ close_seen = FALSE
  /\ msg = NoMsg
  /\ cont = "none"
  /\ work = NoWork
  /\ n_reqs = 0
  /\ last_popped = 0
  /\ last_ord = 0
  /\ fatal_sent = 0
  /\ lost = 0
  /\ client_bufs = {}
  /\ next_id = 1

\* ------------------------------------------------------- the open handshake
\* A worker that reports Ok in both arms.
OpenPushOk(ch, r) == QPush(ch, OpenCap, "Ok")

\* open_tx.push(..) on the capacity-one channel
OpenPush(ch, r) == QPush(ch, OpenCap, r)

\* A worker that runs the loop in both arms.
AfterOpenAlwaysRun(r) == "top"

\* A worker that returns after the handshake in both arms.
AfterOpenNeverRun(r) == "done"

\* The worker enters ReadServer::run only in the Ok arm.
AfterOpen(r) == IF r = "Ok" THEN "top" ELSE "done"

\* The worker closure: D::new, report the outcome, run the loop or return.
WorkerOpen ==
  /\ pc = "open"
  /\ \E r \in {"Ok", "Err"} :
       /\ open_res' = r
       /\ open_ch' = OpenPush(open_ch, r)
       /\ open_pushes' = Append(open_pushes, <<r, OpenPush(open_ch, r) # open_ch>>)
       /\ pc' = AfterOpen(r)
  /\ UNCHANGED <<new_ret, run, decoder_vars, pool_vars, from_client, to_client,
                 close_signal, close_info, close_seen, msg, cont, work, n_reqs,
                 last_popped, sent_vars, client_bufs, next_id>>

\* `if let Ok(res) = open_rx.pop() { return res; }`
OpenPop(ch) == [got |-> ch # <<>>,
                res |-> IF ch # <<>> THEN Head(ch) ELSE "pending",
                rest |-> IF ch # <<>> THEN Tail(ch) ELSE ch]

\* The polling loop of ReadServer::new: pop, else sleep and retry.
NewPoll ==
  /\ new_ret = "pending"
  /\ new_ret' = OpenPop(open_ch).res
  /\ open_ch' = OpenPop(open_ch).rest
  /\ UNCHANGED <<open_res, open_pushes, pc, run, decoder_vars, pool_vars,
                 from_client, to_client, close_signal, close_info, close_seen,
                 msg, cont, work, n_reqs, last_popped, sent_vars, client_bufs,
                 next_id>>

\* ------------------------------------------------------------ the decoder
\* Decoder::decode_into on success: the position advances by the frames
\* produced (one per block, none at the end of the file).
DecodeInto(pos) == IF pos < MaxFrame THEN pos + 1 ELSE pos

\* Decoder::seek_to on success: the decoder is repositioned at the frame.
SeekTo(pos, frame) == frame

RECURSIVE DecodeN(_, _)
\* n successful decode_into calls in a row
DecodeN(pos, n) == IF n = 0 THEN pos ELSE DecodeN(DecodeInto(pos), n - 1)

\* ------------------------------------------------------------------ pools
\* Where the working buffer comes from.
From(supplied, pool) ==
  IF supplied.id # 0 THEN "supplied" ELSE IF pool # <<>> THEN "pool" ELSE "new"

\* A pool used as a queue: the oldest disposed block is taken.
TakeBlockOldest(supplied, pool, id) ==
  [buf  |-> IF supplied.id # 0 THEN supplied
            ELSE IF pool # <<>> THEN Head(pool) ELSE NewBlock(id),
   pool |-> IF pool # <<>> THEN Tail(pool) ELSE pool,
   from |-> From(supplied, pool),
   built |-> TRUE,
   id   |-> IF supplied.id = 0 /\ pool = <<>> THEN id + 1 ELSE id]

\* block.unwrap_or(self.block_pool.pop().unwrap_or(DataBlock::new(..))):
\* both arguments are evaluated before unwrap_or is called, so the pool is
\* popped and DataBlock::new is called (`built`) whether or not a block was
\* supplied; what is not used is dropped.
TakeBlock(supplied, pool, id) ==
  [buf  |-> IF supplied.id # 0 THEN supplied
            ELSE IF pool # <<>> THEN Last(pool) ELSE NewBlock(id),
   pool |-> IF pool # <<>> THEN Front(pool) ELSE pool,
   from |-> From(supplied, pool),
   built |-> TRUE,
   id   |-> IF supplied.id = 0 /\ pool = <<>> THEN id + 1 ELSE id]

\* A handler that fills the top cache of the pool and leaves it there.
TakeCacheKeep(supplied, pool, id) ==
  [buf  |-> IF supplied.id # 0 THEN supplied
            ELSE IF pool # <<>> THEN Last(pool) ELSE NewCache(id),
   pool |-> pool,
   from |-> From(supplied, pool),
   built |-> TRUE,
   id   |-> IF supplied.id = 0 /\ pool = <<>> THEN id + 1 ELSE id]

\* cache.unwrap_or(self.cache_pool.pop().unwrap_or(DataBlockCache::new(..)))
TakeCache(supplied, pool, id) ==
  [buf  |-> IF supplied.id # 0 THEN supplied
            ELSE IF pool # <<>> THEN Last(pool) ELSE NewCache(id),
   pool |-> IF pool # <<>> THEN Front(pool) ELSE pool,
   from |-> From(supplied, pool),
   built |-> TRUE,
   id   |-> IF supplied.id = 0 /\ pool = <<>> THEN id + 1 ELSE id]

\* A handler that forgets wanted_start_smp.
TagBlockStartOnly(b, frame) == [b EXCEPT !.sf = frame]

\* A handler that leaves starting_frame_in_file as it finds it.
TagBlockWantedOnly(b, frame) == [b EXCEPT !.ws = frame]

\* block.starting_frame_in_file = ..; block.wanted_start_smp = ..
TagBlock(b, frame) == [b EXCEPT !.sf = frame, !.ws = frame]

\* cache.wanted_start_smp = starting_frame_in_file
TagCache(c, frame) == [c EXCEPT !.ws = frame]

\* self.block_pool.push(block) / self.cache_pool.push(cache)
PoolPush(pool, b) == Append(pool, b)

\* ------------------------------------------------------- the dispatch loop
\* A loop that never looks at the close signal before draining.
NeverCloseAtTop(cs) == FALSE

\* `if let Ok(heap_data) = self.close_signal_rx.pop()` at the top of the loop
CloseAtTop(cs) == cs # <<>>

\* The close check that opens every iteration of `while self.run`.
CheckClose ==
  /\ pc = "top"
  /\ IF CloseAtTop(close_signal)
       THEN /\ close_signal' = Tail(close_signal)
            /\ close_seen' = TRUE
            /\ run' = FALSE
            /\ pc' = "done"
       ELSE /\ pc' = "drain"
            /\ UNCHANGED <<close_signal, close_seen, run>>
  /\ UNCHANGED <<handshake_vars, decoder_vars, pool_vars, from_client,
                 to_client, close_info, msg, cont, work, n_reqs, last_popped,
                 sent_vars, client_bufs, next_id>>

\* A pop that takes the newest request.
ReqPopNewest(q) == [m |-> Last(q), rest |-> Front(q)]

\* self.from_client_rx.pop(): the oldest request and the rest of the queue
ReqPop(q) == [m |-> Head(q), rest |-> Tail(q)]

FatalError(ord) == [kind |-> "FatalError", idx |-> 0, buf |-> NoBuf, ord |-> ord]

\* ServerToClientMsg::ReadIntoBlockRes { block_index, block }
ReadIntoBlockRes(m, b) ==
  [kind |-> "ReadIntoBlockRes", idx |-> m.idx, buf |-> b, ord |-> m.ord]

\* ServerToClientMsg::CacheRes { cache_index, cache }
CacheRes(m, c) == [kind |-> "CacheRes", idx |-> m.idx, buf |-> c, ord |-> m.ord]

\* self.send_msg(m) is entered; `c` is where the caller resumes.
StartSend(m, c) ==
  /\ msg' = m
  /\ cont' = c
  /\ pc' = "send"

\* Error arms that go on with the next request.
OnErrorContinue == "drain"

\* Where the ReadIntoBlock / SeekTo / first-seek error arms resume after
\* send_msg: self.run = false; break (out of the `while let`).
OnError == "break"

\* Where the error arm inside the cache fill resumes after send_msg:
\* self.run = false; break, which leaves only the `for` loop.
OnFillError == "seekback"

\* ClientToServerMsg::ReadIntoBlock
HandleReadIntoBlock(m) ==
  LET tk == TakeBlock(m.buf, block_pool, next_id)
      b  == TagBlock(tk.buf, m.frame)
  IN /\ block_pool' = tk.pool
     /\ next_id' = tk.id
     /\ dec_calls' = dec_calls + 1
     /\ \E ok \in BOOLEAN :
          /\ work' = [req |-> m, buf |-> b, from |-> tk.from,
                      built |-> tk.built, current_frame |-> decoder,
                      stage |-> "decode", failed |-> ~ok]
          /\ IF ok
               THEN /\ decoder' = DecodeInto(decoder)
                    /\ dec_errs' = dec_errs
                    /\ StartSend(ReadIntoBlockRes(m, b), "drain")
               ELSE /\ UNCHANGED decoder
                    /\ dec_errs' = dec_errs + 1
                    /\ StartSend(FatalError(m.ord), OnError)
     /\ UNCHANGED cache_pool

\* ClientToServerMsg::DisposeBlock
HandleDisposeBlock(m) ==
  /\ block_pool' = PoolPush(block_pool, m.buf)
  /\ pc' = "drain"
  /\ UNCHANGED <<cache_pool, decoder_vars, msg, cont, work, next_id>>

\* ClientToServerMsg::SeekTo
HandleSeekTo(m) ==
  /\ dec_calls' = dec_calls + 1
  /\ \E ok \in BOOLEAN :
       IF ok
         THEN /\ decoder' = SeekTo(decoder, m.frame)
              /\ dec_errs' = dec_errs
              /\ pc' = "drain"
              /\ UNCHANGED <<msg, cont, work>>
         ELSE /\ UNCHANGED decoder
              /\ dec_errs' = dec_errs + 1
              /\ work' = [req |-> m, buf |-> NoBuf, from |-> "none",
                          built |-> FALSE, current_frame |-> decoder,
                          stage |-> "seek", failed |-> TRUE]
              /\ StartSend(FatalError(m.ord), OnError)
  /\ UNCHANGED <<pool_vars, next_id>>

\* A handler that seeks "back" to the frame it has just cached.
SeekBackToWanted(w) == w.req.frame

\* The frame the Cache handler seeks back to: `current_frame`, recorded
\* before the seek to the wanted frame.
SeekBackTarget(w) == w.current_frame

\* ClientToServerMsg::Cache.  `out` is how far the seek / fill / seek-back
\* sequence gets: 0 the first seek fails, k in 1..nb decode_into fails on
\* block k, nb+1 the seek back fails, nb+2 nothing fails.  work.stage is the
\* step the handler has reached.
HandleCache(m) ==
  LET tk == TakeCache(m.buf, cache_pool, next_id)
      c  == TagCache(tk.buf, m.frame)
      w  == [req |-> m, buf |-> c, from |-> tk.from, built |-> tk.built,
             current_frame |-> decoder, stage |-> "seek", failed |-> FALSE]
  IN /\ cache_pool' = tk.pool
     /\ next_id' = tk.id
     /\ \E out \in 0..(c.nb + 2) :
          \/ /\ out = 0
             /\ dec_calls' = dec_calls + 1
             /\ dec_errs' = dec_errs + 1
             /\ UNCHANGED decoder
             /\ work' = [w EXCEPT !.failed = TRUE]
             /\ StartSend(FatalError(m.ord), OnError)
          \/ /\ out \in 1..c.nb
             /\ dec_calls' = dec_calls + 1 + out
             /\ dec_errs' = dec_errs + 1
             /\ decoder' = DecodeN(SeekTo(decoder, m.frame), out - 1)
             /\ work' = [w EXCEPT !.failed = TRUE, !.stage = "fill"]
             /\ StartSend(FatalError(m.ord), OnFillError)
          \/ /\ out = c.nb + 1
             /\ dec_calls' = dec_calls + c.nb + 2
             /\ dec_errs' = dec_errs + 1
             /\ decoder' = DecodeN(SeekTo(decoder, m.frame), c.nb)
             /\ work' = [w EXCEPT !.failed = TRUE, !.stage = "seekback"]
             /\ StartSend(FatalError(m.ord), OnError)
          \/ /\ out = c.nb + 2
             /\ dec_calls' = dec_calls + c.nb + 2
             /\ dec_errs' = dec_errs
             /\ decoder' = SeekTo(DecodeN(SeekTo(decoder, m.frame), c.nb),
                                  SeekBackTarget(w))
             /\ work' = [w EXCEPT !.stage = "seekback"]
             /\ StartSend(CacheRes(m, c), "drain")
     /\ UNCHANGED block_pool

\* ClientToServerMsg::DisposeCache
HandleDisposeCache(m) ==
  /\ cache_pool' = PoolPush(cache_pool, m.buf)
  /\ pc' = "drain"
  /\ UNCHANGED <<block_pool, decoder_vars, msg, cont, work, next_id>>

\* One turn of `while let Ok(msg) = self.from_client_rx.pop()`.  When the
\* queue is empty the worker sleeps and tests `while self.run` again.
PopRequest ==
  /\ pc = "drain"
  /\ IF from_client = <<>>
       THEN /\ pc' = IF run THEN "top" ELSE "done"
            /\ UNCHANGED <<from_client, last_popped, decoder_vars, pool_vars,
                           msg, cont, work, next_id>>
       ELSE LET p == ReqPop(from_client) IN
            /\ from_client' = p.rest
            /\ last_popped' = p.m.ord
            /\ \/ p.m.kind = "ReadIntoBlock" /\ HandleReadIntoBlock(p.m)
               \/ p.m.kind = "DisposeBlock" /\ HandleDisposeBlock(p.m)
               \/ p.m.kind = "SeekTo" /\ HandleSeekTo(p.m)
               \/ p.m.kind = "Cache" /\ HandleCache(p.m)
               \/ p.m.kind = "DisposeCache" /\ HandleDisposeCache(p.m)
  /\ UNCHANGED <<handshake_vars, run, to_client, close_signal, close_info,
                 close_seen, n_reqs, sent_vars, client_bufs>>

\* The Cache handler after a decode_into failure in the fill: the seek back
\* and what follows it still run.
SeekBack ==
  /\ pc = "seekback"
  /\ dec_calls' = dec_calls + 1
  /\ \E ok \in BOOLEAN :
       IF ok
         THEN /\ decoder' = SeekTo(decoder, SeekBackTarget(work))
              /\ dec_errs' = dec_errs
              /\ StartSend(CacheRes(work.req, work.buf), "drain")
         ELSE /\ UNCHANGED decoder
              /\ dec_errs' = dec_errs + 1
              /\ StartSend(FatalError(work.req.ord), OnError)
  /\ UNCHANGED <<handshake_vars, run, pool_vars, from_client, to_client,
                 close_signal, close_info, close_seen, work, n_reqs,
                 last_popped, sent_vars, client_bufs, next_id>>

\* ---------------------------------------------------------------- send_msg
\* `let _ = self.to_client_tx.push(msg)` and the return to the caller, which
\* sets self.run = false on its error paths; `break` out of the `while let`
\* then ends run(), since `while self.run` fails.
PushAndReturn ==
  /\ to_client' = QPush(to_client, RespCap, msg)
  /\ IF QFull(to_client, RespCap)
       THEN /\ lost' = lost + 1
            /\ UNCHANGED <<last_ord, fatal_sent>>
       ELSE /\ last_ord' = IF msg.kind = "FatalError" THEN last_ord ELSE msg.ord
            /\ fatal_sent' = IF msg.kind = "FatalError" THEN fatal_sent + 1
                             ELSE fatal_sent
            /\ UNCHANGED lost
  /\ msg' = NoMsg
  /\ cont' = "none"
  /\ \/ /\ cont = "drain"
        /\ pc' = "drain"
        /\ work' = NoWork
        /\ UNCHANGED run
     \/ /\ cont = "break"
        /\ pc' = "done"
        /\ work' = NoWork
        /\ run' = FALSE
     \/ /\ cont = "seekback"
        /\ pc' = "seekback"
        /\ run' = FALSE
        /\ UNCHANGED work

\* `if let Ok(heap_data) = self.close_signal_rx.pop()` inside send_msg
CloseInSend(cs) == cs # <<>>

\* One turn of the waiting loop of send_msg.
SendMsg ==
  /\ pc = "send"
  /\ IF ~QFull(to_client, RespCap)
       THEN /\ PushAndReturn
            /\ UNCHANGED <<close_signal, close_seen>>
       ELSE IF CloseInSend(close_signal)
         THEN /\ close_signal' = Tail(close_signal)
              /\ close_seen' = TRUE
              /\ run' = FALSE
              /\ pc' = "push"
              /\ UNCHANGED <<to_client, msg, cont, work, sent_vars>>
         ELSE /\ pc' = "sendsleep"
              /\ UNCHANGED <<close_signal, close_seen, run, to_client, msg,
                             cont, work, sent_vars>>
  /\ UNCHANGED <<handshake_vars, decoder_vars, pool_vars, from_client,
                 close_info, n_reqs, last_popped, client_bufs, next_id>>

\* std::thread::sleep inside send_msg
SendSleep ==
  /\ pc = "sendsleep"
  /\ pc' = "send"
  /\ UNCHANGED <<handshake_vars, run, decoder_vars, pool_vars, from_client,
                 to_client, close_signal, close_info, close_seen, msg, cont,
                 work, n_reqs, last_popped, sent_vars, client_bufs, next_id>>

\* The push that follows the loop when it was left on a close signal.
SendPush ==
  /\ pc = "push"
  /\ PushAndReturn
  /\ UNCHANGED <<handshake_vars, decoder_vars, pool_vars, from_client,
                 close_signal, close_info, close_seen, n_reqs, last_popped,
                 client_bufs, next_id>>

Server ==
  \/ WorkerOpen
  \/ CheckClose
  \/ PopRequest
  \/ SeekBack
  \/ SendMsg
  \/ SendSleep
  \/ SendPush

\* ----------------------------------------------------------------- client
ClientBlocks == {b \in client_bufs : b.ty = "block"}
ClientCaches == {b \in client_bufs : b.ty = "cache"}

Req(kind, idx, buf, frame) ==
  [kind |-> kind, idx |-> idx, buf |-> buf, frame |-> frame, ord |-> n_reqs + 1]

\* The client walks the slots of its ring of blocks: the index it asks for
\* next.
NextIdx == n_reqs % (MaxIdx + 1)

\* The requests the client can push now.  A buffer it sends is one it holds;
\* when it holds none it constructs one.
Requests ==
  LET blocks == IF ClientBlocks # {} THEN ClientBlocks ELSE {NewBlock(next_id)}
      caches == IF ClientCaches # {} THEN ClientCaches ELSE {NewCache(next_id)}
  IN {Req("ReadIntoBlock", NextIdx, b, f) : b \in blocks \cup {NoBuf}, f \in Frames}
     \cup {Req("DisposeBlock", 0, b, 0) : b \in blocks}
     \cup {Req("SeekTo", 0, NoBuf, f) : f \in Frames}
     \cup {Req("Cache", NextIdx, c, f) : c \in caches \cup {NoBuf}, f \in Frames}
     \cup {Req("DisposeCache", 0, c, 0) : c \in caches}

ClientPush ==
  /\ new_ret # "pending"
  /\ ~close_info.pushed
  /\ n_reqs < MaxReqs
  /\ ~QFull(from_client, ReqCap)
  /\ \E r \in Requests :
       /\ from_client' = Append(from_client, r)
       /\ client_bufs' = client_bufs \ {r.buf}
       /\ next_id' = IF r.buf.id = next_id THEN next_id + 1 ELSE next_id
  /\ n_reqs' = n_reqs + 1
  /\ UNCHANGED <<handshake_vars, pc, run, decoder_vars, pool_vars, to_client,
                 close_signal, close_info, close_seen, msg, cont, work,
                 last_popped, sent_vars>>

ClientPop ==
  /\ new_ret # "pending"
  /\ ~close_info.pushed
  /\ to_client # <<>>
  /\ to_client' = Tail(to_client)
  /\ client_bufs' = IF Head(to_client).buf.id # 0
                      THEN client_bufs \cup {Head(to_client).buf}
                      ELSE client_bufs
  /\ UNCHANGED <<handshake_vars, pc, run, decoder_vars, pool_vars,
                 from_client, close_signal, close_info, close_seen, msg, cont,
                 work, n_reqs, last_popped, sent_vars, next_id>>

\* The close signal: Some(heap_data) or None, pushed once when the client
\* goes away; it neither pushes nor pops afterwards.
ClientClose ==
  /\ new_ret # "pending"
  /\ ~close_info.pushed
  /\ \E payload \in {"Some", "None"} :
       close_signal' = Append(close_signal, payload)
  /\ close_info' = [pushed |-> TRUE, idle |-> pc \in {"top", "done"},
                    popped |-> last_popped]
  /\ UNCHANGED <<handshake_vars, pc, run, decoder_vars, pool_vars,
                 from_client, to_client, close_seen, msg, cont, work, n_reqs,
                 last_popped, sent_vars, client_bufs, next_id>>

Client == NewPoll \/ ClientPush \/ ClientPop \/ ClientClose

Next == Server \/ Client

Spec == Init /\ [][Next]_vars

\* The worker thread is scheduled fairly: it is never suspended forever.
FairSpec == Spec /\ WF_vars(Server)

\* The worker thread is scheduled fairly and the client keeps popping the
\* response queue.
LiveSpec == Spec /\ WF_vars(Server) /\ WF_vars(ClientPop)

\* ------------------------------------------------------------------ claims
SendPcs == {"send", "sendsleep", "push"}
Indexed == {"ReadIntoBlockRes", "CacheRes"}

\* A response is pushed on the response queue in this step.
Pushed == Len(to_client') > Len(to_client)

\* C1: once a FatalError has been pushed on the response queue, no further
\* response of any kind is pushed.
C1_NoResponseAfterFatal == [][fatal_sent > 0 => ~Pushed]_vars

\* C2 as stated: whenever the close signal is enqueued, no request pending in
\* the request queue at that moment produces a response.
C2_CloseSilencesPending ==
  [][(close_info.pushed /\ Pushed)
       => Last(to_client').ord <= close_info.popped]_vars

\* C2, amended: when the close signal is enqueued while the worker is not
\* in the middle of a drain (it is about to make the close check at the top
\* of the loop, or has terminated), no request pending at that moment
\* produces a response.
C2_CloseWhileIdleSilencesPending ==
  [][(close_info.pushed /\ close_info.idle /\ Pushed)
       => Last(to_client').ord <= close_info.popped]_vars

\* Requests were pending when the close signal came at the top of the loop,
\* and the worker has observed it and returned.
C2_Witness ==
  /\ close_info.pushed /\ close_info.idle
  /\ close_info.popped < n_reqs
  /\ open_res = "Ok" /\ close_seen /\ pc = "done"
  /\ Len(from_client) = ReqCap

\* C3: once the worker has popped the close signal it pops no further
\* request and never calls the decoder again.
C3_NoPopAfterCloseSeen ==
  [][close_seen => (last_popped' = last_popped /\ dec_calls' = dec_calls)]_vars

\* C4: under fair scheduling of the worker, once the close signal has been
\* pushed the worker thread eventually terminates.
C4_CloseLeadsToTerminated == close_info.pushed ~> (pc = "done")

\* C5: the handshake delivers exactly one value on its capacity-one channel:
\* one push, which is accepted and carries the outcome of Decoder::open; new
\* returns that outcome once it is popped, and nothing is pushed afterwards.
C5_HandshakeExactlyOnce ==
  /\ Len(open_pushes) <= 1
  /\ Len(open_ch) <= OpenCap
  /\ \A i \in DOMAIN open_pushes :
       open_pushes[i][1] = open_res /\ open_pushes[i][2]
  /\ (pc # "open") => Len(open_pushes) = 1
  /\ (new_ret # "pending") =>
       (new_ret = open_res /\ open_ch = <<>> /\ Len(open_pushes) = 1)
  /\ (new_ret = "pending" /\ pc # "open") => open_ch = <<open_res>>

\* new has returned Ok, the worker has since run and terminated.
C5_Witness ==
  /\ new_ret = "Ok" /\ open_res = "Ok" /\ pc = "done" /\ last_popped > 0

\* C6: if Decoder::open fails the worker never enters the loop: it pops no
\* request and no close signal, calls no decoder operation and pushes no
\* response.
C6_OpenFailedNeverRuns ==
  open_res = "Err" =>
    /\ pc = "done"
    /\ last_popped = 0 /\ ~close_seen /\ dec_calls = 0
    /\ to_client = <<>> /\ msg = NoMsg /\ lost = 0
    /\ fatal_sent = 0 /\ last_ord = 0

\* Open failed, and the client has since filled the request queue and pushed
\* the close signal.
C6_Witness ==
  /\ open_res = "Err" /\ new_ret = "Err"
  /\ Len(from_client) = ReqCap /\ close_signal # <<>>

\* The index the client gave the request of this ord.
IdxOf(ord) == (ord - 1) % (MaxIdx + 1)

\* C7: requests are popped in push order, and the ReadIntoBlockRes / CacheRes
\* responses are pushed in the order of their requests, each carrying the
\* index of its request.
C7_FifoOrder ==
  /\ last_popped + Len(from_client) = n_reqs
  /\ \A i \in DOMAIN from_client : from_client[i].ord = last_popped + i
  /\ last_ord <= last_popped
  /\ \A i \in DOMAIN to_client :
       /\ to_client[i].ord <= last_popped
       /\ to_client[i].kind \in Indexed =>
            /\ to_client[i].idx = IdxOf(to_client[i].ord)
            /\ to_client[i].ord <= last_ord
            /\ \A j \in DOMAIN to_client :
                 (i < j /\ to_client[j].kind \in Indexed)
                   => to_client[i].ord < to_client[j].ord
  /\ (pc \in SendPcs /\ msg.kind \in Indexed) =>
       /\ msg.ord = last_popped
       /\ msg.ord > last_ord
       /\ msg.idx = IdxOf(msg.ord)
       /\ msg.kind = (IF work.req.kind = "ReadIntoBlock"
                        THEN "ReadIntoBlockRes" ELSE "CacheRes")
       /\ work.req.kind \in {"ReadIntoBlock", "Cache"}

\* The response to the third request is on the queue, after those to the
\* first two.
C7_Witness ==
  /\ last_ord = 3 /\ to_client # <<>> /\ Last(to_client).ord = 3
  /\ fatal_sent = 0 /\ lost = 0 /\ dec_calls >= 3

\* C8: the ReadIntoBlockRes produced for ReadIntoBlock{i, block, F} carries
\* block_index i and a block with starting_frame_in_file = F and
\* wanted_start_smp = F.
C8_ReadIntoBlockTags ==
  (pc \in SendPcs /\ msg.kind = "ReadIntoBlockRes") =>
    /\ work.req.kind = "ReadIntoBlock"
    /\ msg.idx = work.req.idx
    /\ msg.buf.id = work.buf.id
    /\ msg.buf.sf = work.req.frame
    /\ msg.buf.ws = work.req.frame

\* A block taken from the pool, whose old tags differ from the frame asked
\* for, is on its way back.
C8_Witness ==
  /\ pc = "send" /\ msg.kind = "ReadIntoBlockRes"
  /\ work.from = "pool" /\ work.req.frame = 0
  /\ \E b \in ClientBlocks : b.sf = 1

\* C9: when CacheRes is sent for a Cache request during which no decoder
\* call failed, the decoder is at the frame it was at before the request.
C9_CachePreservesPosition ==
  (pc \in SendPcs /\ msg.kind = "CacheRes" /\ ~work.failed) =>
    decoder = work.current_frame

\* A cache of at least one block was filled at a frame other than the
\* decoder's position.
C9_Witness ==
  /\ pc = "send" /\ msg.kind = "CacheRes" /\ ~work.failed
  /\ work.req.frame # work.current_frame
  /\ msg.buf.nb > 0

\* The worker pops a request in this step.
Pops == pc = "drain" /\ from_client # <<>> /\ last_popped' # last_popped

\* C10: a fill request with no buffer, serviced while the pool is not empty,
\* fills the buffer disposed last and removes it from the pool; a disposed
\* buffer goes on top of its pool.
C10_PoolLifo ==
  [][Pops =>
       /\ (Head(from_client).kind = "ReadIntoBlock"
             /\ Head(from_client).buf.id = 0 /\ block_pool # <<>>)
            => /\ work'.buf.id = Last(block_pool).id
               /\ block_pool' = Front(block_pool)
               /\ msg'.kind = "ReadIntoBlockRes"
                    => msg'.buf.id = Last(block_pool).id
       /\ (Head(from_client).kind = "Cache"
             /\ Head(from_client).buf.id = 0 /\ cache_pool # <<>>)
            => /\ work'.buf.id = Last(cache_pool).id
               /\ cache_pool' = Front(cache_pool)
       /\ Head(from_client).kind = "DisposeBlock"
            => (block_pool' # <<>> /\ Last(block_pool') = Head(from_client).buf)
       /\ Head(from_client).kind = "DisposeCache"
            => (cache_pool' # <<>> /\ Last(cache_pool') = Head(from_client).buf)]_vars

\* Two blocks were disposed and a ReadIntoBlock with no block took the one
\* disposed last; the other is still in the pool.
C10_Witness ==
  /\ pc = "send" /\ msg.kind = "ReadIntoBlockRes" /\ work.from = "pool"
  /\ Len(block_pool) = 1 /\ block_pool[1].id < msg.buf.id

\* C11: while servicing a ReadIntoBlock or Cache request the worker
\* constructs a new DataBlock / DataBlockCache only on a pool miss: the
\* request supplied no buffer and the pool was empty.
C11_ConstructOnlyOnPoolMiss ==
  (work.req.kind \in {"ReadIntoBlock", "Cache"} /\ work.built)
    => work.from = "new"

\* C17: servicing a ReadIntoBlock that supplies its block leaves the block
\* pool unchanged, and servicing a Cache that supplies its cache leaves the
\* cache pool unchanged.
C17_SuppliedLeavesPool ==
  [][Pops =>
       /\ (Head(from_client).kind = "ReadIntoBlock"
             /\ Head(from_client).buf.id # 0) => block_pool' = block_pool
       /\ (Head(from_client).kind = "Cache"
             /\ Head(from_client).buf.id # 0) => cache_pool' = cache_pool]_vars

\* C12: every value the client pushes on the close-signal queue is
\* eventually popped by the worker thread, whatever the worker was doing
\* when it was pushed.
C12_ClosePayloadPopped == (close_signal # <<>>) ~> (close_signal = <<>>)

\* The number of places that hold the buffer of this identity: messages of
\* the request queue, the worker's working variable (which the response
\* being sent carries), the two pools, messages of the response queue, the
\* client.
Holders(id) ==
  Cardinality({i \in DOMAIN from_client : from_client[i].buf.id = id})
  + (IF work.buf.id = id \/ msg.buf.id = id THEN 1 ELSE 0)
  + Cardinality({i \in DOMAIN block_pool : block_pool[i].id = id})
  + Cardinality({i \in DOMAIN cache_pool : cache_pool[i].id = id})
  + Cardinality({i \in DOMAIN to_client : to_client[i].buf.id = id})
  + Cardinality({b \in client_bufs : b.id = id})

\* Identities of the buffers held anywhere.
HeldIds ==
  {from_client[i].buf.id : i \in DOMAIN from_client}
  \cup {work.buf.id, msg.buf.id}
  \cup {block_pool[i].id : i \in DOMAIN block_pool}
  \cup {cache_pool[i].id : i \in DOMAIN cache_pool}
  \cup {to_client[i].buf.id : i \in DOMAIN to_client}
  \cup {b.id : b \in client_bufs}

\* C13: every DataBlock and DataBlockCache is held in one place only among
\* the request queue, the worker's working variable, the pools, the response
\* queue and the client (a buffer that was dropped is held nowhere).
C13_SingleOwner ==
  /\ \A id \in HeldIds \ {0} : id < next_id /\ Holders(id) = 1
  /\ msg.buf.id # 0 => msg.buf = work.buf
  /\ \A i \in DOMAIN block_pool : block_pool[i].ty = "block"
  /\ \A i \in DOMAIN cache_pool : cache_pool[i].ty = "cache"

\* A cache that went through the pool is on its way back to a client that
\* holds a block from an earlier response.
C13_Witness ==
  /\ pc = "send" /\ msg.kind = "CacheRes" /\ work.from = "pool"
  /\ ClientBlocks # {}

\* C14: after the first decode_into or seek_to call that returns an error
\* the worker calls neither of them again and pops no further request.
C14_FirstErrorHalts ==
  [][dec_errs > 0 => (dec_calls' = dec_calls /\ last_popped' = last_popped)]_vars

\* The worker is sending the FatalError of a decode_into failure of a
\* ReadIntoBlock, or of a seek_to failure of a SeekTo or of the first seek of
\* a Cache.
SendingFirstError ==
  /\ pc \in SendPcs /\ work.failed
  /\ \/ work.req.kind = "ReadIntoBlock" /\ work.stage = "decode"
     \/ work.req.kind \in {"SeekTo", "Cache"} /\ work.stage = "seek"

\* C15: on such a failure the worker attempts to send one FatalError, sends
\* no ReadIntoBlockRes / CacheRes for the request, pops no further request and
\* terminates once the send returns.
C15_ErrorTerminates ==
  [][/\ SendingFirstError =>
          /\ msg = FatalError(work.req.ord)
          /\ last_popped = work.req.ord /\ last_ord < work.req.ord
          /\ last_popped' = last_popped /\ last_ord' = last_ord
          /\ dec_calls' = dec_calls
          /\ \/ pc' \in SendPcs /\ msg' = msg
                /\ fatal_sent' = fatal_sent /\ lost' = lost
             \/ pc' = "done" /\ ~run'
                /\ fatal_sent' + lost' = fatal_sent + lost + 1
     /\ pc = "done" =>
          /\ pc' = "done" /\ ~Pushed
          /\ last_popped' = last_popped /\ dec_calls' = dec_calls]_vars

\* The first decoder call of the run failed, its FatalError is on the
\* response queue and the worker has terminated with a request still queued.
C15_Witness ==
  /\ pc = "done" /\ dec_calls = 1 /\ dec_errs = 1
  /\ fatal_sent = 1 /\ lost = 0 /\ from_client # <<>>

\* C16: when a value is in the close-signal queue as the worker starts an
\* iteration of the dispatch loop, the worker pops it and terminates in that
\* iteration: it pops no request and pushes no response, then or later.
C16_CloseAtTopTerminates ==
  [][/\ (pc = "top" /\ close_signal # <<>> /\ pc' # pc) =>
          /\ pc' = "done" /\ ~run' /\ close_seen'
          /\ close_signal' = Tail(close_signal)
          /\ from_client' = from_client /\ last_popped' = last_popped
          /\ to_client' = to_client /\ msg' = NoMsg
          /\ UNCHANGED <<decoder_vars, sent_vars>>
     /\ (pc = "done" /\ close_seen) =>
          /\ pc' = "done" /\ ~Pushed
          /\ from_client' = from_client
          /\ UNCHANGED <<decoder_vars, sent_vars>>]_vars

\* The worker serviced a request, then found the close signal at the top of
\* the loop and terminated, leaving the requests pushed since in the queue.
C16_Witness ==
  /\ pc = "done" /\ close_seen /\ close_info.idle
  /\ last_popped > 0 /\ close_info.popped = last_popped
  /\ from_client # <<>> /\ close_signal = <<>>

\* C18 as stated: the block of a ReadIntoBlockRes carries as
\* starting_frame_in_file the decoder's current_frame at the moment
\* decode_into was called.
C18_TagIsDecodeStart ==
  (pc \in SendPcs /\ msg.kind = "ReadIntoBlockRes") =>
    msg.buf.sf = work.current_frame

\* C18, amended: the block of a ReadIntoBlockRes carries as
\* starting_frame_in_file the frame the request asked for, which is the frame
\* the decoder started from exactly when the decoder was at the requested
\* frame as decode_into was called.
C18_TagIsRequestedFrame ==
  (pc \in SendPcs /\ msg.kind = "ReadIntoBlockRes") =>
    /\ msg.buf.sf = work.req.frame
    /\ (msg.buf.sf = work.current_frame) <=> (work.req.frame = work.current_frame)

\* A ReadIntoBlock asked for a frame the decoder was not at, with no SeekTo
\* before it, and its block is on its way back.
C18_Witness ==
  /\ pc = "send" /\ msg.kind = "ReadIntoBlockRes"
  /\ work.req.frame # work.current_frame
  /\ dec_calls = 1 /\ decoder # work.req.frame

\* send_msg returns in this step.
SendReturns == pc \in SendPcs /\ pc' \notin SendPcs

\* C19: a response is dropped by send_msg only after the worker has popped a
\* close signal; as long as it has popped none, the send_msg call returns only
\* once the response queue had a free slot and the response is on it.
C19_DropOnlyAfterClose ==
  [][/\ lost' > lost => close_seen
     /\ (SendReturns /\ ~close_seen) =>
          /\ Len(to_client) < RespCap
          /\ to_client' = Append(to_client, msg)
          /\ lost' = lost
     /\ Len(to_client') <= RespCap]_vars

\* With no close signal pushed, a response is on the queue and the worker
\* is waiting in send_msg for a free slot for the next one.
C19_Witness ==
  /\ pc = "sendsleep" /\ QFull(to_client, RespCap)
  /\ ~close_info.pushed /\ lost = 0 /\ last_ord > 0
  /\ msg.kind \in Indexed

\* The response kind that answers a fill request.
ResOf(kind) == IF kind = "ReadIntoBlock" THEN "ReadIntoBlockRes" ELSE "CacheRes"

\* The fill request of this ord is in the request queue of a server whose
\* open succeeded.
Queued(o) ==
  /\ open_res = "Ok"
  /\ \E i \in DOMAIN from_client :
       /\ from_client[i].ord = o
       /\ from_client[i].kind \in {"ReadIntoBlock", "Cache"}

\* The response to the fill request of this ord has just been pushed.
Answered(o) ==
  /\ to_client # <<>> /\ last_ord = o
  /\ Last(to_client).ord = o
  /\ Last(to_client).kind \in Indexed
  /\ Last(to_client).idx = IdxOf(o)

\* C20: with a fair worker and a client that keeps popping, as long as no
\* decoder call fails and no close signal is pushed every ReadIntoBlock{i} and
\* Cache{i} in the request queue is eventually answered by a response of its
\* index, which is a ReadIntoBlockRes for a ReadIntoBlock and a CacheRes for
\* a Cache, and no request is answered twice.
C20_FillRequestsAnswered ==
  /\ \A o \in 1..MaxReqs :
       Queued(o) ~> (Answered(o) \/ dec_errs > 0 \/ close_info.pushed)
  /\ [][(Pushed /\ Last(to_client').kind \in Indexed)
          => /\ Last(to_client').ord > last_ord
             /\ last_ord' = Last(to_client').ord
             /\ Last(to_client').ord = work.req.ord
             /\ Last(to_client').kind = ResOf(work.req.kind)]_vars

\* The third request, a Cache, has been answered after the responses to the
\* first two were popped, with no failure and no close signal.
C20_Witness ==
  /\ Answered(MaxReqs) /\ Last(to_client).kind = "CacheRes"
  /\ Len(to_client) = 1
  /\ dec_errs = 0 /\ ~close_info.pushed /\ lost = 0
  /\ Cardinality(client_bufs) >= 2
====
